---- MODULE Spec2Model ----
(***************************************************************************)
(* Model of day1/notebooks/svm_SDSS.ipynb: the kernel namespace of the     *)
(* notebook, the three row-matched SDSS datasets it reads, and one action  *)
(* per code cell (a cell holding a `with h5py.File(...)` block is split at *)
(* the block's entry, body and exit so that the file handle is visible).   *)
(*                                                                         *)
(* Magnitudes are modelled in units of 0.05 mag, so the colour box         *)
(* 0.45 < g-r < 0.55, 0 < r-i < 0.4 reads 9 < g-r < 11, 0 < r-i < 8.       *)
(* Fluxes are integers (exact addition).  Row and column indices are       *)
(* 1-based here and 0-based in the notebook.                               *)
(***************************************************************************)
EXTENDS Integers, Sequences, FiniteSets, TLC

\* ------------------------------------------------------------------ bounds
MaxSpecRows == 2
MaxPhotoRows == 3
MaxFluxRows == 3
MaxCoaddRows == 2

\* ------------------------------------------------------- program constants
\* pixels per spectrum (4603 in the data set, scaled down)
P == 2
\* index of the example spectrum, f['flux'][71924] (scaled down, 1-based)
ExampleRow == 2
\* t_size = 70000 (scaled down)
t_size == 2
\* colour box of color_cut, in units of 0.05 mag
GR_LO == 9
GR_HI == 11
RI_LO == 0
RI_HI == 8

\* ------------------------------------------------- floating point values
Num(n) == [kind |-> "num", v |-> n]
NaN == [kind |-> "nan", v |-> 0]
PosInf == [kind |-> "pinf", v |-> 0]
NegInf == [kind |-> "ninf", v |-> 0]

IsNaN(a) == a.kind = "nan"
IsFinite(a) == a.kind = "num"

\* a - b on IEEE values: NaN propagates, inf - inf is NaN
Sub(a, b) ==
  CASE a.kind = "nan" \/ b.kind = "nan" -> NaN
    [] a.kind = "num" /\ b.kind = "num" -> Num(a.v - b.v)
    [] a.kind = "pinf" -> IF b.kind = "pinf" THEN NaN ELSE PosInf
    [] a.kind = "ninf" -> IF b.kind = "ninf" THEN NaN ELSE NegInf
    [] OTHER -> IF b.kind = "pinf" THEN NegInf ELSE PosInf

\* a > c and a < c against a finite constant c: every comparison with NaN
\* is False
Gt(a, c) ==
  CASE a.kind = "num" -> a.v > c
    [] a.kind = "pinf" -> TRUE
    [] OTHER -> FALSE

Lt(a, c) ==
  CASE a.kind = "num" -> a.v < c
    [] a.kind = "ninf" -> TRUE
    [] OTHER -> FALSE

\* ------------------------------------------------------------ input data
Classes == {"STAR", "QSO", "GALAXY"}

\* (g, r, i) of one source; u and z do not enter any computation
MagTemplates ==
  { [g |-> Num(30), r |-> Num(20), i |-> Num(15)],
    [g |-> NaN, r |-> Num(20), i |-> Num(15)],
    [g |-> PosInf, r |-> PosInf, i |-> Num(15)] }

Widths == 4..6

\* one PSFMAG row of width w: u g r i z (and a sixth band when w = 6)
MagRow(t, w) == SubSeq(<<Num(40), t.g, t.r, t.i, Num(10), Num(5)>>, 1, w)

FluxRow(i) == <<i, 10 * i>>
IvarRow(i) == <<i - 1, 1>>
WaveGrid == <<3600, 3601>>

Min(a, b) == IF a < b THEN a ELSE b

\* ---------------------------------------------------------- array helpers
\* column j of a 2-D column, photoPos['PSFMAG'][:, j]
ColumnOf(tbl, j) == [i \in 1..Len(tbl) |-> tbl[i][j]]

\* elementwise a - b of two equally long columns
ColSub(a, b) == [i \in 1..Len(a) |-> Sub(a[i], b[i])]

\* s[:n], Python slice semantics: clipped to the length of s
Take(s, n) == SubSeq(s, 1, Min(n, Len(s)))

\* s[n:]
Drop(s, n) == SubSeq(s, Min(n, Len(s)) + 1, Len(s))

\* (g_r > 0.45) & (g_r < 0.55) & (r_i > 0.) & (r_i < 0.4)
\* (variant: the same box written as the negation of its complement,
\*  ~((g_r <= 0.45) | (g_r >= 0.55) | (r_i <= 0.) | (r_i >= 0.4)))
ColorCutNegated(gr, ri) ==
  [i \in 1..Len(gr) |->
     ~ (Lt(gr[i], GR_LO + 1) \/ Gt(gr[i], GR_HI - 1)
        \/ Lt(ri[i], RI_LO + 1) \/ Gt(ri[i], RI_HI - 1))]

ColorCut(gr, ri) ==
  [i \in 1..Len(gr) |->
     Gt(gr[i], GR_LO) /\ Lt(gr[i], GR_HI) /\ Gt(ri[i], RI_LO) /\ Lt(ri[i], RI_HI)]

\* dataset[mask, :] : the rows whose mask entry is True, in file order
RECURSIVE SelectRows(_, _)
SelectRowsReversed(data, mask) ==
  IF Len(mask) = 0 THEN <<>>
  ELSE LET n == Len(mask)
           rest == SelectRows(SubSeq(data, 1, n - 1), SubSeq(mask, 1, n - 1))
       IN IF mask[n] THEN <<data[n]>> \o rest ELSE rest

SelectRows(data, mask) ==
  IF Len(mask) = 0 THEN <<>>
  ELSE LET n == Len(mask)
           rest == SelectRows(SubSeq(data, 1, n - 1), SubSeq(mask, 1, n - 1))
       IN IF mask[n] THEN Append(rest, data[n]) ELSE rest

ZeroVec == [j \in 1..P |-> 0]
VecAdd(a, b) == [j \in 1..P |-> a[j] + b[j]]

\* np.sum(rows, axis=0) of a k x P array: a length-P vector, zeros for k = 0
RECURSIVE SumRows(_)
SumRowsFromFirst(rows) ==
  IF Len(rows) = 0 THEN <<>>
  ELSE IF Len(rows) = 1 THEN rows[1]
  ELSE VecAdd(SumRows(SubSeq(rows, 1, Len(rows) - 1)), rows[Len(rows)])

SumRowsSkipFirst(rows) ==
  IF Len(rows) <= 1 THEN ZeroVec
  ELSE VecAdd(SumRows(SubSeq(rows, 1, Len(rows) - 1)), rows[Len(rows)])

SumRows(rows) ==
  IF Len(rows) = 0 THEN ZeroVec
  ELSE VecAdd(SumRows(SubSeq(rows, 1, Len(rows) - 1)), rows[Len(rows)])

\* [1 if specObj['CLASS'][i] == 'STAR' else 0 for i in range(len(specObj))]
RECURSIVE Labels(_)
LabelsNotGalaxy(cls) ==
  IF Len(cls) = 0 THEN <<>>
  ELSE Append(Labels(SubSeq(cls, 1, Len(cls) - 1)),
              IF cls[Len(cls)] # "GALAXY" THEN 1 ELSE 0)

Labels(cls) ==
  IF Len(cls) = 0 THEN <<>>
  ELSE Append(Labels(SubSeq(cls, 1, Len(cls) - 1)),
              IF cls[Len(cls)] = "STAR" THEN 1 ELSE 0)

\* X = photoPos['PSFMAG'] : the column itself, whatever its per-row width
FeaturesFirstFive(col) ==
  [i \in 1..Len(col) |-> SubSeq(col[i], 1, Min(5, Len(col[i])))]

Features(col) == col

\* leaving a `with` block: the handle is closed whether or not the body raised
WithExitNoCleanup(hs, h, raised) == IF raised THEN hs ELSE hs \ {h}

WithExit(hs, h, raised) == hs \ {h}

\* ------------------------------------------------------------------ state
VARIABLES
  pc,               \* the next cell (or step of a `with` block) to run
  specObj,          \* CLASS column of specObj-merged.hdf5
  photoPos,         \* PSFMAG column of photoPosPlate-merged.hdf5
  spPlate,          \* flux / ivar / wave of spPlate-merged.hdf5
  handles,          \* open h5py.File handles
  bound,            \* names bound in the kernel namespace
  errors,           \* per cell: the exception it ended with, or "none"
  wave, flux, ivar,
  g_r, r_i, color_cut,
  color_cut_flux, color_cut_ivar, color_cut_coadd,
  y, X, clf, predict, non_matching,
  alg               \* co-addition applied to two disjoint masks

data == <<specObj, photoPos, spPlate>>
names == <<wave, flux, ivar, g_r, r_i, color_cut, color_cut_flux,
           color_cut_ivar, color_cut_coadd, y, X, clf, predict, non_matching>>
vars == <<pc, data, handles, bound, errors, names, alg>>

Cells == {"shape", "example", "colors", "cut", "load", "coadd",
          "labels", "fit", "predict", "score"}

AlgIdle == [step |-> "off", flux |-> <<>>, A |-> <<>>, B |-> <<>>,
            sumA |-> <<>>, sumB |-> <<>>, sumAB |-> <<>>]

Unfitted == [fitted |-> FALSE, Xtr |-> <<>>, ytr |-> <<>>]

Init ==
  /\ pc = "open1"
  /\ \E n \in 1..MaxSpecRows : specObj \in [1..n -> Classes]
  /\ \E n \in 1..MaxPhotoRows, w \in Widths :
        \E ts \in [1..n -> MagTemplates] :
          photoPos = [i \in 1..n |-> MagRow(ts[i], w)]
  /\ \E n \in 1..MaxFluxRows :
        spPlate = [flux |-> [i \in 1..n |-> FluxRow(i)],
                   ivar |-> [i \in 1..n |-> IvarRow(i)],
                   wave |-> WaveGrid]
  /\ handles = {}
  /\ bound = {"clf"}
  /\ errors = [c \in Cells |-> "none"]
  /\ wave = <<>> /\ flux = <<>> /\ ivar = <<>>
  /\ g_r = <<>> /\ r_i = <<>> /\ color_cut = <<>>
  /\ color_cut_flux = <<>> /\ color_cut_ivar = <<>> /\ color_cut_coadd = <<>>
  /\ y = <<>> /\ X = <<>> /\ clf = Unfitted
  /\ predict = <<>> /\ non_matching = 0
  /\ alg = AlgIdle

Raise(cell, exc) == errors' = [errors EXCEPT ![cell] = exc]

\* ------------------------------------------- cell 1: shape inspection
\* with h5py.File(...) as f:
Open1 ==
  /\ pc = "open1"
  /\ handles' = handles \cup {1}
  /\ pc' = "read1"
  /\ UNCHANGED <<data, bound, errors, names, alg>>

\*     print(list(f.keys())); print(f['flux'].shape)
Read1 ==
  /\ pc = "read1"
  /\ \E ok \in BOOLEAN :
       IF ok THEN /\ pc' = "exit1"
                  /\ UNCHANGED <<handles, errors>>
             ELSE /\ Raise("shape", "IOError")
                  /\ handles' = WithExit(handles, 1, TRUE)
                  /\ pc' = "open2"
  /\ UNCHANGED <<data, bound, names, alg>>

Exit1 ==
  /\ pc = "exit1"
  /\ handles' = WithExit(handles, 1, FALSE)
  /\ pc' = "open2"
  /\ UNCHANGED <<data, bound, errors, names, alg>>

\* ------------------------------------------- cell 2: one example spectrum
Open2 ==
  /\ pc = "open2"
  /\ handles' = handles \cup {2}
  /\ pc' = "read2"
  /\ UNCHANGED <<data, bound, errors, names, alg>>

\*     wave = f['wave'][:]; flux = f['flux'][71924]; ivar = f['ivar'][71924]
Read2 ==
  /\ pc = "read2"
  /\ \E ok \in BOOLEAN :
       IF ~ok
       THEN \* the first read fails: nothing is bound
            /\ Raise("example", "IOError")
            /\ handles' = WithExit(handles, 2, TRUE)
            /\ pc' = "colors"
            /\ UNCHANGED <<wave, flux, ivar, bound>>
       ELSE IF ExampleRow > Len(spPlate.flux)
       THEN \* wave is read, the row index is out of range
            /\ wave' = spPlate.wave
            /\ bound' = bound \cup {"wave"}
            /\ Raise("example", "IndexError")
            /\ handles' = WithExit(handles, 2, TRUE)
            /\ pc' = "colors"
            /\ UNCHANGED <<flux, ivar>>
       ELSE /\ wave' = spPlate.wave
            /\ flux' = spPlate.flux[ExampleRow]
            /\ ivar' = spPlate.ivar[ExampleRow]
            /\ bound' = bound \cup {"wave", "flux", "ivar"}
            /\ pc' = "exit2"
            /\ UNCHANGED <<handles, errors>>
  /\ UNCHANGED <<data, g_r, r_i, color_cut, color_cut_flux, color_cut_ivar,
                 color_cut_coadd, y, X, clf, predict, non_matching, alg>>

Exit2 ==
  /\ pc = "exit2"
  /\ handles' = WithExit(handles, 2, FALSE)
  /\ pc' = "colors"
  /\ UNCHANGED <<data, bound, errors, names, alg>>

\* ------------------------------------------------- cells: colours and cut
\* g_r = PSFMAG[:,1] - PSFMAG[:,2]; r_i = PSFMAG[:,2] - PSFMAG[:,3]
ColorsCell ==
  /\ pc = "colors"
  /\ g_r' = ColSub(ColumnOf(photoPos, 2), ColumnOf(photoPos, 3))
  /\ r_i' = ColSub(ColumnOf(photoPos, 3), ColumnOf(photoPos, 4))
  /\ bound' = bound \cup {"g_r", "r_i"}
  /\ pc' = "cut"
  /\ UNCHANGED <<data, handles, errors, wave, flux, ivar, color_cut,
                 color_cut_flux, color_cut_ivar, color_cut_coadd,
                 y, X, clf, predict, non_matching, alg>>

ColorCutCell ==
  /\ pc = "cut"
  /\ color_cut' = ColorCut(g_r, r_i)
  /\ bound' = bound \cup {"color_cut"}
  /\ pc' = "open3"
  /\ UNCHANGED <<data, handles, errors, wave, flux, ivar, g_r, r_i,
                 color_cut_flux, color_cut_ivar, color_cut_coadd,
                 y, X, clf, predict, non_matching, alg>>

\* ------------------------------------------- cell: load the masked spectra
Open3 ==
  /\ pc = "open3"
  /\ handles' = handles \cup {3}
  /\ pc' = "read3"
  /\ UNCHANGED <<data, bound, errors, names, alg>>

\*     wave = f['wave'][:]
\*     color_cut_flux = f['flux'][color_cut, :]
\*     color_cut_ivar = f['ivar'][color_cut, :]
Read3 ==
  /\ pc = "read3"
  /\ \E ok \in BOOLEAN :
       IF ~ok
       THEN /\ Raise("load", "IOError")
            /\ handles' = WithExit(handles, 3, TRUE)
            /\ pc' = "coadd"
            /\ UNCHANGED <<wave, color_cut_flux, color_cut_ivar, bound>>
       ELSE IF Len(color_cut) # Len(spPlate.flux)
       THEN \* a boolean index must be as long as the axis it indexes
            /\ wave' = spPlate.wave
            /\ bound' = bound \cup {"wave"}
            /\ Raise("load", "ShapeError")
            /\ handles' = WithExit(handles, 3, TRUE)
            /\ pc' = "coadd"
            /\ UNCHANGED <<color_cut_flux, color_cut_ivar>>
       ELSE /\ wave' = spPlate.wave
            /\ color_cut_flux' = SelectRows(spPlate.flux, color_cut)
            /\ color_cut_ivar' = SelectRows(spPlate.ivar, color_cut)
            /\ bound' = bound \cup {"wave", "color_cut_flux", "color_cut_ivar"}
            /\ pc' = "exit3"
            /\ UNCHANGED <<handles, errors>>
  /\ UNCHANGED <<data, flux, ivar, g_r, r_i, color_cut, color_cut_coadd,
                 y, X, clf, predict, non_matching, alg>>

Exit3 ==
  /\ pc = "exit3"
  /\ handles' = WithExit(handles, 3, FALSE)
  /\ pc' = "coadd"
  /\ UNCHANGED <<data, bound, errors, names, alg>>

\* color_cut_coadd = np.sum(color_cut_flux, axis=0)
CoaddCell ==
  /\ pc = "coadd"
  /\ IF "color_cut_flux" \in bound
     THEN /\ color_cut_coadd' = SumRows(color_cut_flux)
          /\ bound' = bound \cup {"color_cut_coadd"}
          /\ UNCHANGED errors
     ELSE /\ Raise("coadd", "NameError")
          /\ UNCHANGED <<color_cut_coadd, bound>>
  /\ pc' = "labels"
  /\ UNCHANGED <<data, handles, wave, flux, ivar, g_r, r_i, color_cut,
                 color_cut_flux, color_cut_ivar, y, X, clf, predict,
                 non_matching, alg>>

\* ------------------------------------------------------ cells: classifier
\* y = Column([1 if specObj['CLASS'][i] == 'STAR' else 0 for i in ...])
\* X = photoPos['PSFMAG']
LabelsCell ==
  /\ pc = "labels"
  /\ y' = Labels(specObj)
  /\ X' = Features(photoPos)
  /\ bound' = bound \cup {"y", "X"}
  /\ pc' = "fit"
  /\ UNCHANGED <<data, handles, errors, wave, flux, ivar, g_r, r_i, color_cut,
                 color_cut_flux, color_cut_ivar, color_cut_coadd, clf,
                 predict, non_matching, alg>>

AllFinite(rows) == \A i \in 1..Len(rows) : \A j \in 1..Len(rows[i]) : IsFinite(rows[i][j])

\* outcome of SVC.fit(Xtr, ytr): input validation, then training
FitOutcomeNoLengthCheck(Xtr, ytr) ==
  IF ~AllFinite(Xtr) THEN "ValueError"
  ELSE IF Cardinality({ytr[i] : i \in 1..Len(ytr)}) < 2 THEN "ValueError"
  ELSE "none"

FitOutcome(Xtr, ytr) ==
  IF ~AllFinite(Xtr) THEN "ValueError"
  ELSE IF Len(Xtr) # Len(ytr) THEN "ShapeError"
  ELSE IF Cardinality({ytr[i] : i \in 1..Len(ytr)}) < 2 THEN "ValueError"
  ELSE "none"

\* clf.fit(X[:t_size], y[:t_size])
FitCell ==
  /\ pc = "fit"
  /\ LET Xtr == Take(X, t_size)
         ytr == Take(y, t_size)
     IN /\ Raise("fit", FitOutcome(Xtr, ytr))
        /\ clf' = IF FitOutcome(Xtr, ytr) = "none"
                  THEN [fitted |-> TRUE, Xtr |-> Xtr, ytr |-> ytr]
                  ELSE clf
  /\ pc' = "predict"
  /\ UNCHANGED <<data, handles, bound, wave, flux, ivar, g_r, r_i, color_cut,
                 color_cut_flux, color_cut_ivar, color_cut_coadd, y, X,
                 predict, non_matching, alg>>

\* predict = clf.predict(x[t_size:])
\* no cell binds the name x, so evaluating the argument raises NameError
PredictCell ==
  /\ pc = "predict"
  /\ "x" \notin bound
  /\ Raise("predict", "NameError")
  /\ pc' = "score"
  /\ UNCHANGED <<data, handles, bound, names, alg>>

Mismatches(a, b) == Cardinality({i \in 1..Len(a) : a[i] # b[i]})

\* non_matching = np.sum(predict != y[t_size:])
NonMatchingCell ==
  /\ pc = "score"
  /\ IF {"predict", "y"} \subseteq bound
     THEN /\ non_matching' = Mismatches(predict, Drop(y, t_size))
          /\ bound' = bound \cup {"non_matching"}
          /\ UNCHANGED errors
     ELSE /\ Raise("score", "NameError")
          /\ UNCHANGED <<non_matching, bound>>
  /\ pc' = "done"
  /\ UNCHANGED <<data, handles, wave, flux, ivar, g_r, r_i, color_cut,
                 color_cut_flux, color_cut_ivar, color_cut_coadd, y, X, clf,
                 predict, alg>>

Next ==
  \/ Open1 \/ Read1 \/ Exit1
  \/ Open2 \/ Read2 \/ Exit2
  \/ ColorsCell \/ ColorCutCell
  \/ Open3 \/ Read3 \/ Exit3
  \/ CoaddCell
  \/ LabelsCell \/ FitCell \/ PredictCell \/ NonMatchingCell

Spec == Init /\ [][Next]_vars

\* --------------------------------- co-addition over two masks of one array
FluxVals == {-1, 0, 2}
FluxRows == [1..P -> FluxVals]

\* mask_a | mask_b
MaskOr(a, b) == [i \in 1..Len(a) |-> a[i] \/ b[i]]

\* np.sum(flux[mask, :], axis=0)
Coadd(fl, mask) == SumRows(SelectRows(fl, mask))

InitCoadd ==
  /\ pc = "off"
  /\ specObj = <<>> /\ photoPos = <<>>
  /\ spPlate = [flux |-> <<>>, ivar |-> <<>>, wave |-> WaveGrid]
  /\ handles = {}
  /\ bound = {}
  /\ errors = [c \in Cells |-> "none"]
  /\ wave = <<>> /\ flux = <<>> /\ ivar = <<>>
  /\ g_r = <<>> /\ r_i = <<>> /\ color_cut = <<>>
  /\ color_cut_flux = <<>> /\ color_cut_ivar = <<>> /\ color_cut_coadd = <<>>
  /\ y = <<>> /\ X = <<>> /\ clf = Unfitted
  /\ predict = <<>> /\ non_matching = 0
  /\ \E n \in 0..MaxCoaddRows :
       \E fl \in [1..n -> FluxRows], a \in [1..n -> BOOLEAN], b \in [1..n -> BOOLEAN] :
         alg = [step |-> "A", flux |-> fl, A |-> a, B |-> b,
                sumA |-> <<>>, sumB |-> <<>>, sumAB |-> <<>>]

CoaddA ==
  /\ alg.step = "A"
  /\ alg' = [alg EXCEPT !.sumA = Coadd(alg.flux, alg.A), !.step = "B"]
  /\ UNCHANGED <<pc, data, handles, bound, errors, names>>

CoaddB ==
  /\ alg.step = "B"
  /\ alg' = [alg EXCEPT !.sumB = Coadd(alg.flux, alg.B), !.step = "AB"]
  /\ UNCHANGED <<pc, data, handles, bound, errors, names>>

CoaddUnion ==
  /\ alg.step = "AB"
  /\ alg' = [alg EXCEPT !.sumAB = Coadd(alg.flux, MaskOr(alg.A, alg.B)),
                        !.step = "done"]
  /\ UNCHANGED <<pc, data, handles, bound, errors, names>>

NextCoadd == CoaddA \/ CoaddB \/ CoaddUnion

SpecCoadd == InitCoadd /\ [][NextCoadd]_vars

\* ------------------------------------------------------------ properties
PastLoad == pc \in {"coadd", "labels", "fit", "predict", "score", "done"}
PastLabels == pc \in {"fit", "predict", "score", "done"}
PastFit == pc \in {"predict", "score", "done"}
Width == Len(photoPos[1])
TrueCount(mask) == Cardinality({i \in 1..Len(mask) : mask[i]})
KthTrue(mask, k) ==
  CHOOSE i \in 1..Len(mask) : mask[i] /\ Cardinality({j \in 1..i : mask[j]}) = k
Disjoint(a, b) == \A i \in 1..Len(a) : ~(a[i] /\ b[i])

C2_OnlyStarsCoadded ==
  ("color_cut_flux" \in bound /\ Len(specObj) = Len(photoPos))
    => color_cut_flux =
         SelectRows(spPlate.flux,
                    [i \in 1..Len(color_cut) |-> color_cut[i] /\ specObj[i] = "STAR"])

\* C3: combining data sets whose row counts differ always ends in an error
\* and never yields a result computed from a shortened row set.
C3_MisalignedAlwaysFails ==
  /\ (PastFit /\ Len(specObj) # Len(photoPos)) => ~clf.fitted
  /\ (PastLoad /\ Len(photoPos) # Len(spPlate.flux)) => "color_cut_flux" \notin bound

\* C3 (amended): a colour mask whose length differs from the number of flux
\* rows makes the masked read fail with a shape error; the label/feature
\* pairing is made on X[:t_size] and y[:t_size], so it fails with a shape
\* error when these two slices differ in length (and X[:t_size] is finite),
\* and otherwise a completed fit used the first min(t_size, R) rows of each
\* table, whether or not the two tables have the same number of rows.
C3_FitOnTruncatedRows ==
  /\ (PastLoad /\ Len(photoPos) # Len(spPlate.flux) /\ errors["load"] # "IOError")
       => (errors["load"] = "ShapeError" /\ "color_cut_flux" \notin bound)
  /\ (PastFit /\ AllFinite(SubSeq(photoPos, 1, Min(t_size, Len(photoPos))))
              /\ Min(t_size, Len(photoPos)) # Min(t_size, Len(specObj)))
       => (errors["fit"] = "ShapeError" /\ ~clf.fitted)
  /\ (PastFit /\ clf.fitted)
       => /\ Len(clf.Xtr) = Min(t_size, Len(photoPos))
          /\ Len(clf.ytr) = Min(t_size, Len(specObj))
          /\ Len(clf.Xtr) = Len(clf.ytr)
          /\ \A i \in 1..Len(clf.Xtr) :
               /\ clf.Xtr[i] = photoPos[i]
               /\ clf.ytr[i] = IF specObj[i] = "STAR" THEN 1 ELSE 0

C3_Witness ==
  /\ pc = "done"
  /\ clf.fitted
  /\ Len(specObj) # Len(photoPos)

\* C4: every handle opened on the spectrum file is closed on every exit path
\* of the block that opened it; outside the blocks no handle is open.
C4_HandlesClosed ==
  handles = CASE pc \in {"read1", "exit1"} -> {1}
              [] pc \in {"read2", "exit2"} -> {2}
              [] pc \in {"read3", "exit3"} -> {3}
              [] OTHER -> {}

C4_Witness ==
  /\ pc = "done"
  /\ errors["example"] = "IndexError"
  /\ errors["load"] = "ShapeError"
  /\ errors["shape"] = "none"
  /\ handles = {}

\* C5: feature extraction fails whenever the per-row width of the magnitude
\* column is not 5, so no classifier is ever fitted on such a column.
C5_WidthChecked ==
  (PastFit /\ Width # 5) => (errors["labels"] # "none" \/ ~clf.fitted)

\* C5 (amended): feature extraction never fails on the width: for every
\* per-row width W (4, 5 or 6) X is the magnitude column unmodified, an
\* R x W matrix, and a completed fit was given rows of W features.
C5_FeaturesUnchecked ==
  PastLabels
    => /\ errors["labels"] = "none"
       /\ "X" \in bound
       /\ X = photoPos
       /\ \A i \in 1..Len(X) : Len(X[i]) = Width
       /\ clf.fitted => \A i \in 1..Len(clf.Xtr) : Len(clf.Xtr[i]) = Width

C5_Witness ==
  /\ pc = "done"
  /\ Width = 6
  /\ clf.fitted

\* C6: building the colour cut never raises, and a row whose g-r or r-i is
\* NaN (in particular a row with a NaN g, r or i magnitude) has mask value
\* false.
C6_NaNNeverSelected ==
  ("color_cut" \in bound)
    => /\ errors["colors"] = "none" /\ errors["cut"] = "none"
       /\ Len(color_cut) = Len(photoPos)
       /\ \A i \in 1..Len(color_cut) :
            /\ (IsNaN(g_r[i]) \/ IsNaN(r_i[i])) => ~color_cut[i]
            /\ (\E j \in 2..4 : IsNaN(photoPos[i][j])) => ~color_cut[i]

C6_Witness ==
  /\ "color_cut" \in bound
  /\ \E i \in 1..Len(color_cut) : IsNaN(g_r[i]) /\ IsNaN(photoPos[i][2])
  /\ \E i \in 1..Len(color_cut) : IsNaN(g_r[i]) /\ ~IsNaN(photoPos[i][2])
  /\ \E i \in 1..Len(color_cut) : color_cut[i]

\* C7: selecting rows with a boolean mask of length R returns as many rows
\* as the mask has true entries, the k-th returned row being the row at the
\* k-th true index; a mask with no true entry returns an empty subset and no
\* error.
C7_MaskSelection ==
  ("color_cut_flux" \in bound)
    => /\ Len(color_cut) = Len(spPlate.flux)
       /\ errors["load"] = "none"
       /\ Len(color_cut_flux) = TrueCount(color_cut)
       /\ Len(color_cut_ivar) = TrueCount(color_cut)
       /\ \A k \in 1..TrueCount(color_cut) :
            /\ color_cut_flux[k] = spPlate.flux[KthTrue(color_cut, k)]
            /\ color_cut_ivar[k] = spPlate.ivar[KthTrue(color_cut, k)]

C7_Witness ==
  /\ "color_cut_flux" \in bound
  /\ color_cut = <<TRUE, FALSE, TRUE>>
  /\ Len(color_cut_flux) = 2

\* C8: co-adding with a mask that selects no row yields the zero vector of
\* length P and raises no error.
C8_EmptyCoaddIsZero ==
  ("color_cut_coadd" \in bound /\ TrueCount(color_cut) = 0)
    => /\ errors["load"] = "none" /\ errors["coadd"] = "none"
       /\ color_cut_flux = <<>>
       /\ Len(color_cut_coadd) = P
       /\ \A j \in 1..P : color_cut_coadd[j] = 0

C8_Witness ==
  /\ "color_cut_coadd" \in bound
  /\ Len(color_cut) = 3
  /\ TrueCount(color_cut) = 0

\* C9: the label vector has one entry per row of the class column, 1 exactly
\* where the class is STAR and 0 elsewhere, in row order; the ten labels
\* STAR,STAR,QSO,GALAXY,STAR,QSO,GALAXY,STAR,QSO,GALAXY give 1,1,0,0,1,0,0,1,0,0.
C9_Labels ==
  /\ ("y" \in bound)
       => /\ Len(y) = Len(specObj)
          /\ \A i \in 1..Len(specObj) : (y[i] = 1) <=> (specObj[i] = "STAR")
          /\ \A i \in 1..Len(specObj) : (y[i] = 0) <=> (specObj[i] # "STAR")
  /\ (pc = "done")
       => Labels(<<"STAR", "STAR", "QSO", "GALAXY", "STAR", "QSO", "GALAXY",
                   "STAR", "QSO", "GALAXY">>) = <<1, 1, 0, 0, 1, 0, 0, 1, 0, 0>>

C9_Witness ==
  /\ pc = "done"
  /\ "y" \in bound
  /\ specObj = <<"GALAXY", "STAR">>
  /\ y = <<0, 1>>

\* C10: after a completed fit on rows 0..t_size-1, prediction runs on rows
\* t_size..R-1 of the same X and completes with one prediction per test
\* row, and the predictions are scored against y at those rows.
C10_PredictCompletes ==
  (pc = "done" /\ clf.fitted)
    => /\ "predict" \in bound
       /\ Len(predict) = Len(Drop(X, t_size))
       /\ "non_matching" \in bound
       /\ errors["predict"] = "none" /\ errors["score"] = "none"

====
